---- MODULE Spec2Model ----
(***************************************************************************)
(* NgxSmartFormsService (src/src/lib/services/ngx-smart-forms.service.ts): *)
(* a registry keyed by form instance that keeps a snapshot of the form's   *)
(* initial control states, a boolean signal "form changed" and the         *)
(* subscription to the form's valueChanges stream that drives the signal.  *)
(*                                                                         *)
(* The host framework's FormGroup is modelled by what the service and its  *)
(* tests use of it: named controls holding a value, setValue / patchValue, *)
(* addControl / removeControl, markAsPristine and the synchronous          *)
(* valueChanges stream.  A value is a record [id, content]: id 0 is a      *)
(* primitive (compared by content), id > 0 is an allocated object or list  *)
(* (compared by identity).  A FormControl stores the reference it is       *)
(* given; a nested FormGroup rebuilds its value object on every update,    *)
(* so its value gets a new identity each time.                             *)
(***************************************************************************)
EXTENDS Integers, Sequences, FiniteSets, TLC

\* ---------------------------------------------------------------- bounds
\* primitive values and object contents are 1..MaxPrim
MaxPrim == 2
\* longest controlNames list handed to resetControlsToInitialValue
MaxNames == 2

\* ------------------------------------------------------------- universes
Forms == {"form1", "form2"}
\* null handed to the service in the place of a form: a key the tables
\* accept, with no controls and no valueChanges stream
NullForm == "null"
\* the form the single-form specification operates on
OneForm == {"form1"}
\* control names; "name" is a FormControl, "user" a nested FormGroup
Names == {"name", "user"}
GroupNames == {"user"}
\* a name every plain JavaScript object answers through its prototype: no
\* control and no snapshot entry has it, and yet obj[name] is truthy
ProtoNames == {"constructor"}
Prims == 1..MaxPrim
\* an object is identified by the control it was built for and a number:
\* the snapshot entry and the live control of one name refer to at most two
\* objects, and the values of different controls are never compared
ObjIds == {1, 2}
\* a form holds one subscription; a new one is created while the old exists
SubIds == 1..(Cardinality(Forms) + 1)
\* per form: the cell in the table and one cell a caller still holds
CellIds == 1..(2 * Cardinality(Forms))
NoValidator == "none"
Validators == {NoValidator}
\* the validators of the controls whose state (disabled, validator) varies
SomeValidators == {NoValidator, "required"}

VARIABLES
  controls,          \* controls[f]: the live form f, control name -> control
  pristine,          \* pristine[f]: FormGroup.pristine
  initialValuesMap,  \* Map<FormGroup, {[key]: IControlState}>
  formChangedMap,    \* Map<FormGroup, WritableSignal<boolean>> (cell ids)
  subscriptions,     \* Map<FormGroup, Subscription> (subscription ids)
  cells,             \* the signal cells in existence: cell id -> boolean
  observers,         \* observers[f]: the active subscribers of f.valueChanges
  held,              \* held[f]: the cell a caller got from getFormChanged(f)
  lastOp             \* the operation that produced the current state

vars == <<controls, pristine, initialValuesMap, formChangedMap, subscriptions,
          cells, observers, held, lastOp>>

\* ----------------------------------------------------------------- values
Prim(n) == [id |-> 0, content |-> n]
Obj(i, c) == [id |-> i, content |-> c]

\* inequality of what the values contain (deep comparison)
StrictNeq_content(x, y) == x.content # y.content

\* JavaScript's x !== y: primitives by value, objects by identity
StrictNeq(x, y) ==
  IF x.id = 0 /\ y.id = 0 THEN x.content # y.content ELSE x.id # y.id

\* finite-map helpers
Put(m, k, v) == [x \in (DOMAIN m) \cup {k} |-> IF x = k THEN v ELSE m[x]]
Del(m, k) == [x \in (DOMAIN m) \ {k} |-> m[x]]
Range(m) == {m[x] : x \in DOMAIN m}
EmptyMap == [x \in {} |-> 0]
Least(S) == CHOOSE i \in S : \A j \in S : i <= j

\* the identity a newly allocated value of control k gets: one that differs
\* from the object the snapshot entry of k refers to (the object the control
\* held before is released by the assignment)
FreshId(f, k) ==
  IF f \in DOMAIN initialValuesMap /\ k \in DOMAIN initialValuesMap[f]
  THEN Least(ObjIds \ {initialValuesMap[f][k].value.id})
  ELSE Least(ObjIds)

\* --------------------------------------------------- the host form (Angular)
\* control.setValue(v) / control.patchValue(v) on control k of a form whose
\* controls are ctl: a FormControl keeps the reference v, a nested FormGroup
\* hands v's entries to its children and rebuilds its own value object
ControlSetValue(f, ctl, k, v) ==
  IF k \in GroupNames
  THEN [ctl EXCEPT ![k].value =
          Obj(FreshId(f, k), v.content)]
  ELSE [ctl EXCEPT ![k].value = v]

\* the values a caller can give control k of form f: a FormControl takes a
\* primitive, a newly built list or the list the snapshot still refers to;
\* a nested group is edited through its children
NewValues(f, k) ==
  LET fresh == FreshId(f, k)
  IN IF k \in GroupNames
     THEN {Obj(fresh, c) : c \in Prims}
     ELSE {Prim(n) : n \in Prims} \cup {Obj(fresh, c) : c \in Prims}
          \cup (IF f \in DOMAIN initialValuesMap /\ k \in DOMAIN initialValuesMap[f]
                   /\ initialValuesMap[f][k].value.id # 0
                THEN {initialValuesMap[f][k].value} ELSE {})

\* ------------------------------------------------------------ the service
\* JavaScript's truthiness of obj[key] for a plain object whose own keys are
\* DOMAIN obj (own entries are controls or control states, never falsy)
Truthy(obj, key) == key \in DOMAIN obj \/ key \in ProtoNames

\* the IControlState captured for one control
ControlState(c) ==
  [value |-> c.value, disabled |-> c.disabled,
   validators |-> IF c.validator # NoValidator THEN <<c.validator>> ELSE <<>>]

\* captureInitialValues adding to the snapshot the form already has
captureInitialValues_merge(f) ==
  LET old == IF f \in DOMAIN initialValuesMap THEN initialValuesMap[f] ELSE EmptyMap
  IN [k \in (DOMAIN old) \cup (DOMAIN controls[f]) |->
        IF k \in DOMAIN controls[f] THEN ControlState(controls[f][k]) ELSE old[k]]

\* captureInitialValues recording every control as enabled
captureInitialValues_enabled(f) ==
  [k \in DOMAIN controls[f] |->
     [ControlState(controls[f][k]) EXCEPT !.disabled = FALSE]]

\* captureInitialValues: one entry per control currently on the form
captureInitialValues(f) ==
  [k \in DOMAIN controls[f] |-> ControlState(controls[f][k])]

\* hasFormChanged comparing what the values contain instead of the references
hasFormChanged_deep(f, ctl) ==
  IF f \notin DOMAIN initialValuesMap THEN FALSE
  ELSE \E key \in DOMAIN ctl :
         /\ key \in DOMAIN initialValuesMap[f]
         /\ ctl[key].value.content # initialValuesMap[f][key].value.content

\* hasFormChanged running over the snapshot's keys: a control that is gone
\* counts as changed
hasFormChanged_snapkeys(f, ctl) ==
  IF f \notin DOMAIN initialValuesMap THEN FALSE
  ELSE \E key \in DOMAIN initialValuesMap[f] :
         \/ key \notin DOMAIN ctl
         \/ StrictNeq(ctl[key].value, initialValuesMap[f][key].value)

\* hasFormChanged that also compares the disabled flags
hasFormChanged_flags(f, ctl) ==
  IF f \notin DOMAIN initialValuesMap THEN FALSE
  ELSE \E key \in DOMAIN ctl :
         /\ key \in DOMAIN initialValuesMap[f]
         /\ \/ StrictNeq(ctl[key].value, initialValuesMap[f][key].value)
            \/ ctl[key].disabled # initialValuesMap[f][key].disabled

\* hasFormChanged with every() in place of some()
hasFormChanged_every(f, ctl) ==
  IF f \notin DOMAIN initialValuesMap THEN FALSE
  ELSE \A key \in DOMAIN ctl :
         /\ key \in DOMAIN initialValuesMap[f]
         /\ StrictNeq(ctl[key].value, initialValuesMap[f][key].value)

\* hasFormChanged without the skip of controls that have no snapshot entry
hasFormChanged_noskip(f, ctl) ==
  IF f \notin DOMAIN initialValuesMap THEN FALSE
  ELSE \E key \in DOMAIN ctl :
         \/ key \notin DOMAIN initialValuesMap[f]
         \/ StrictNeq(ctl[key].value, initialValuesMap[f][key].value)

\* hasFormChanged, evaluated on the controls ctl of form f; where the snapshot
\* has no entry of its own and initialValues[key] is truthy all the same, its
\* .value is undefined, which no control value equals
hasFormChanged(f, ctl) ==
  IF f \notin DOMAIN initialValuesMap THEN FALSE
  ELSE \E key \in DOMAIN ctl :
         /\ Truthy(initialValuesMap[f], key)
         /\ IF key \in DOMAIN initialValuesMap[f]
            THEN StrictNeq(ctl[key].value, initialValuesMap[f][key].value)
            ELSE TRUE

\* one valueChanges event of form f, whose controls are now ctl: every active
\* subscriber runs the handler installed by storeInitialValues
\* a handler that writes the signal of every form that has a handler
Notify_all(f, ctl) ==
  [c \in DOMAIN cells |->
     IF \E g \in Forms : \E o \in observers[g] : o.cell = c THEN hasFormChanged(f, ctl)
     ELSE cells[c]]

Notify(f, ctl) ==
  [c \in DOMAIN cells |->
     IF \E o \in observers[f] : o.cell = c THEN hasFormChanged(f, ctl)
     ELSE cells[c]]

\* the cells that are still referenced by the table, a caller or a handler
Referenced(fcm, hld, obs) ==
  Range(fcm) \cup Range(hld) \cup UNION {{o.cell : o \in obs[g]} : g \in Forms}
Collect(cls, fcm, hld, obs) ==
  [c \in (DOMAIN cls) \cap Referenced(fcm, hld, obs) |-> cls[c]]

\* an operation that returned, the form it was called on and the control
\* names it was about
Op(name, f, ks) == [op |-> name, form |-> f, names |-> ks, thrown |-> FALSE]
\* an operation that ended by throwing
Threw(name, f, ks) == [op |-> name, form |-> f, names |-> ks, thrown |-> TRUE]

\* canDeactivate without the negation
\* canDeactivate falling back on the form's pristine flag when there is no signal
canDeactivate_pristine(f) ==
  IF f \notin DOMAIN formChangedMap THEN pristine[f] ELSE ~cells[formChangedMap[f]]

canDeactivate_plain(f) ==
  IF f \notin DOMAIN formChangedMap THEN TRUE ELSE cells[formChangedMap[f]]

canDeactivate(f) ==
  IF f \notin DOMAIN formChangedMap THEN TRUE ELSE ~cells[formChangedMap[f]]

Init ==
  /\ controls = [f \in Forms |-> EmptyMap]
  /\ pristine = [f \in Forms |-> TRUE]
  /\ initialValuesMap = EmptyMap
  /\ formChangedMap = EmptyMap
  /\ subscriptions = EmptyMap
  /\ cells = EmptyMap
  /\ observers = [f \in Forms |-> {}]
  /\ held = EmptyMap
  /\ lastOp = Op("new", "none", {})

\* ---- operations of the host form, performed by the application
\* formGroup.addControl(k, control): emits valueChanges
AddControl(f, k, v, val) ==
  /\ k \notin DOMAIN controls[f]
  /\ LET ctl == Put(controls[f], k, [value |-> v, disabled |-> FALSE, validator |-> val])
     IN /\ controls' = [controls EXCEPT ![f] = ctl]
        /\ cells' = Notify(f, ctl)
  /\ lastOp' = Op("addControl", f, {k})
  /\ UNCHANGED <<pristine, initialValuesMap, formChangedMap, subscriptions, observers, held>>

\* formGroup.removeControl(k): emits valueChanges
RemoveControl(f, k) ==
  /\ k \in DOMAIN controls[f]
  /\ LET ctl == Del(controls[f], k)
     IN /\ controls' = [controls EXCEPT ![f] = ctl]
        /\ cells' = Notify(f, ctl)
  /\ lastOp' = Op("removeControl", f, {k})
  /\ UNCHANGED <<pristine, initialValuesMap, formChangedMap, subscriptions, observers, held>>

\* control.setValue(v) / formGroup.patchValue({k: v}): emits valueChanges
SetValue(f, k, v) ==
  /\ k \in DOMAIN controls[f]
  /\ LET ctl == ControlSetValue(f, controls[f], k, v)
     IN /\ controls' = [controls EXCEPT ![f] = ctl]
        /\ cells' = Notify(f, ctl)
  /\ lastOp' = Op("setValue", f, {k})
  /\ UNCHANGED <<pristine, initialValuesMap, formChangedMap, subscriptions, observers, held>>

\* the user touches the form: formGroup.markAsDirty()
MarkAsDirty(f) ==
  /\ pristine[f]
  /\ pristine' = [pristine EXCEPT ![f] = FALSE]
  /\ lastOp' = Op("markAsDirty", f, {})
  /\ UNCHANGED <<controls, initialValuesMap, formChangedMap, subscriptions, cells, observers, held>>

\* control.enable() / control.disable(): emits valueChanges; a FormControl
\* keeps its value, a nested FormGroup rebuilds its value object
SetDisabled(f, k, b) ==
  /\ k \in DOMAIN controls[f]
  /\ LET ctl == [controls[f] EXCEPT
                  ![k].disabled = b,
                  ![k].value = IF k \in GroupNames
                               THEN Obj(FreshId(f, k), @.content) ELSE @]
     IN /\ controls' = [controls EXCEPT ![f] = ctl]
        /\ cells' = Notify(f, ctl)
  /\ lastOp' = Op("setDisabled", f, {k})
  /\ UNCHANGED <<pristine, initialValuesMap, formChangedMap, subscriptions, observers, held>>

\* control.setValidators(val) followed by control.updateValueAndValidity(),
\* which emits valueChanges
SetValidators(f, k, val) ==
  /\ k \in DOMAIN controls[f]
  /\ controls[f][k].validator # val
  /\ LET ctl == [controls[f] EXCEPT ![k].validator = val]
     IN /\ controls' = [controls EXCEPT ![f] = ctl]
        /\ cells' = Notify(f, ctl)
  /\ lastOp' = Op("setValidators", f, {k})
  /\ UNCHANGED <<pristine, initialValuesMap, formChangedMap, subscriptions, observers, held>>

\* ---- operations of the service
\* getFormChanged without the test for an existing signal
getFormChanged_always(f, keep) ==
  LET cell == Least(CellIds \ DOMAIN cells)
      fcm == Put(formChangedMap, f, cell)
      hld == IF keep THEN Put(held, f, cell) ELSE held
  IN /\ formChangedMap' = fcm
     /\ held' = hld
     /\ cells' = Collect(Put(cells, cell, FALSE), fcm, hld, observers)
     /\ lastOp' = Op("getFormChanged", f, {})
     /\ UNCHANGED <<controls, pristine, initialValuesMap, subscriptions, observers>>

\* getFormChanged bringing the signal up to date with hasFormChanged
getFormChanged_refresh(f, keep) ==
  LET has == f \in DOMAIN formChangedMap
      cell == IF has THEN formChangedMap[f] ELSE Least(CellIds \ DOMAIN cells)
      fcm == Put(formChangedMap, f, cell)
      hld == IF keep THEN Put(held, f, cell) ELSE held
  IN /\ formChangedMap' = fcm
     /\ held' = hld
     /\ cells' = Collect(Put(cells, cell, hasFormChanged(f, controls[f])),
                         fcm, hld, observers)
     /\ lastOp' = Op("getFormChanged", f, {})
     /\ UNCHANGED <<controls, pristine, initialValuesMap, subscriptions, observers>>

\* getFormChanged creating the signal with true
getFormChanged_true(f, keep) ==
  LET has == f \in DOMAIN formChangedMap
      cell == IF has THEN formChangedMap[f] ELSE Least(CellIds \ DOMAIN cells)
      fcm == Put(formChangedMap, f, cell)
      hld == IF keep THEN Put(held, f, cell) ELSE held
  IN /\ formChangedMap' = fcm
     /\ held' = hld
     /\ cells' = Collect(IF has THEN cells ELSE Put(cells, cell, TRUE), fcm, hld, observers)
     /\ lastOp' = Op("getFormChanged", f, {})
     /\ UNCHANGED <<controls, pristine, initialValuesMap, subscriptions, observers>>

\* keep: the caller stores the returned signal instead of only reading it
getFormChanged(f, keep) ==
  LET has == f \in DOMAIN formChangedMap
      cell == IF has THEN formChangedMap[f] ELSE Least(CellIds \ DOMAIN cells)
      fcm == Put(formChangedMap, f, cell)
      hld == IF keep THEN Put(held, f, cell) ELSE held
  IN /\ formChangedMap' = fcm
     /\ held' = hld
     /\ cells' = Collect(IF has THEN cells ELSE Put(cells, cell, FALSE), fcm, hld, observers)
     /\ lastOp' = Op("getFormChanged", f, {})
     /\ UNCHANGED <<controls, pristine, initialValuesMap, subscriptions, observers>>

\* storeInitialValues creating a new signal on every call
storeInitialValues_newcell(f) ==
  LET obs1 == IF f \in DOMAIN subscriptions
              THEN {o \in observers[f] : o.sub # subscriptions[f]}
              ELSE observers[f]
      cell == Least(CellIds \ DOMAIN cells)
      fcm == Put(formChangedMap, f, cell)
      sub == Least(SubIds \ (Range(subscriptions)
                             \cup UNION {{o.sub : o \in observers[g]} : g \in Forms}))
      obs == [observers EXCEPT ![f] = obs1 \cup {[sub |-> sub, cell |-> cell]}]
  IN /\ initialValuesMap' = Put(initialValuesMap, f, captureInitialValues(f))
     /\ formChangedMap' = fcm
     /\ cells' = Collect(Put(cells, cell, FALSE), fcm, held, obs)
     /\ observers' = obs
     /\ subscriptions' = Put(subscriptions, f, sub)
     /\ lastOp' = Op("storeInitialValues", f, DOMAIN controls[f])
     /\ UNCHANGED <<controls, pristine, held>>

\* storeInitialValues without the unsubscribe of the previous subscription
storeInitialValues_nounsub(f) ==
  LET has == f \in DOMAIN formChangedMap
      cell == IF has THEN formChangedMap[f] ELSE Least(CellIds \ DOMAIN cells)
      sub == Least(SubIds \ (Range(subscriptions)
                             \cup UNION {{o.sub : o \in observers[g]} : g \in Forms}))
  IN /\ initialValuesMap' = Put(initialValuesMap, f, captureInitialValues(f))
     /\ formChangedMap' = Put(formChangedMap, f, cell)
     /\ cells' = IF has THEN cells ELSE Put(cells, cell, FALSE)
     /\ observers' = [observers EXCEPT ![f] = @ \cup {[sub |-> sub, cell |-> cell]}]
     /\ subscriptions' = Put(subscriptions, f, sub)
     /\ lastOp' = Op("storeInitialValues", f, DOMAIN controls[f])
     /\ UNCHANGED <<controls, pristine, held>>

storeInitialValues(f) ==
  LET obs1 == IF f \in DOMAIN subscriptions
              THEN {o \in observers[f] : o.sub # subscriptions[f]}
              ELSE observers[f]
      has == f \in DOMAIN formChangedMap
      cell == IF has THEN formChangedMap[f] ELSE Least(CellIds \ DOMAIN cells)
      sub == Least(SubIds \ (Range(subscriptions)
                             \cup UNION {{o.sub : o \in observers[g]} : g \in Forms}))
  IN /\ initialValuesMap' = Put(initialValuesMap, f, captureInitialValues(f))
     /\ formChangedMap' = Put(formChangedMap, f, cell)
     /\ cells' = IF has THEN cells ELSE Put(cells, cell, FALSE)
     /\ observers' = [observers EXCEPT ![f] = obs1 \cup {[sub |-> sub, cell |-> cell]}]
     /\ subscriptions' = Put(subscriptions, f, sub)
     /\ lastOp' = Op("storeInitialValues", f, DOMAIN controls[f])
     /\ UNCHANGED <<controls, pristine, held>>

\* updateInitialValuesForNewControls capturing every control anew
updateInitialValuesForNewControls_refresh(f) ==
  LET current == IF f \in DOMAIN initialValuesMap THEN initialValuesMap[f] ELSE EmptyMap
      updated == [k \in (DOMAIN current) \cup (DOMAIN controls[f]) |->
                    IF k \in DOMAIN controls[f] THEN ControlState(controls[f][k])
                    ELSE current[k]]
  IN /\ initialValuesMap' = Put(initialValuesMap, f, updated)
     /\ lastOp' = Op("updateInitialValuesForNewControls", f,
                     (DOMAIN controls[f]) \ (DOMAIN current))
     /\ UNCHANGED <<controls, pristine, formChangedMap, subscriptions, cells, observers, held>>

\* updateInitialValuesForNewControls with the test of the entry inverted:
\* existing entries are overwritten and new controls get none
updateInitialValuesForNewControls_inverted(f) ==
  LET current == IF f \in DOMAIN initialValuesMap THEN initialValuesMap[f] ELSE EmptyMap
      updated == [k \in DOMAIN current |->
                    IF k \in DOMAIN controls[f] THEN ControlState(controls[f][k])
                    ELSE current[k]]
  IN /\ initialValuesMap' = Put(initialValuesMap, f, updated)
     /\ lastOp' = Op("updateInitialValuesForNewControls", f,
                     (DOMAIN controls[f]) \ (DOMAIN current))
     /\ UNCHANGED <<controls, pristine, formChangedMap, subscriptions, cells, observers, held>>

\* the controls for which updatedInitialValues[controlName] is falsy get an
\* entry
updateInitialValuesForNewControls(f) ==
  LET current == IF f \in DOMAIN initialValuesMap THEN initialValuesMap[f] ELSE EmptyMap
      new == {k \in DOMAIN controls[f] : ~Truthy(current, k)}
      updated == [k \in (DOMAIN current) \cup new |->
                    IF k \in DOMAIN current THEN current[k]
                    ELSE ControlState(controls[f][k])]
  IN /\ initialValuesMap' = Put(initialValuesMap, f, updated)
     /\ lastOp' = Op("updateInitialValuesForNewControls", f, new)
     /\ UNCHANGED <<controls, pristine, formChangedMap, subscriptions, cells, observers, held>>

\* cleanupForm with the two deletes inside the test for a subscription
cleanupForm_inside(f) ==
  IF f \in DOMAIN subscriptions
  THEN LET obs == [observers EXCEPT ![f] =
                     {o \in observers[f] : o.sub # subscriptions[f]}]
           fcm == Del(formChangedMap, f)
       IN /\ observers' = obs
          /\ subscriptions' = Del(subscriptions, f)
          /\ initialValuesMap' = Del(initialValuesMap, f)
          /\ formChangedMap' = fcm
          /\ cells' = Collect(cells, fcm, held, obs)
          /\ lastOp' = Op("cleanupForm", f, {})
          /\ UNCHANGED <<controls, pristine, held>>
  ELSE /\ lastOp' = Op("cleanupForm", f, {})
       /\ UNCHANGED <<controls, pristine, initialValuesMap, formChangedMap,
                      subscriptions, cells, observers, held>>

\* cleanupForm that unsubscribes but keeps the entry of the subscription table
cleanupForm_keepsub(f) ==
  LET obs == [observers EXCEPT ![f] =
                IF f \in DOMAIN subscriptions
                THEN {o \in observers[f] : o.sub # subscriptions[f]}
                ELSE observers[f]]
      fcm == Del(formChangedMap, f)
  IN /\ observers' = obs
     /\ subscriptions' = subscriptions
     /\ initialValuesMap' = Del(initialValuesMap, f)
     /\ formChangedMap' = fcm
     /\ cells' = Collect(cells, fcm, held, obs)
     /\ lastOp' = Op("cleanupForm", f, {})
     /\ UNCHANGED <<controls, pristine, held>>

\* cleanupForm that keeps the entry of the signal table
cleanupForm_keepsignal(f) ==
  LET obs == [observers EXCEPT ![f] =
                IF f \in DOMAIN subscriptions
                THEN {o \in observers[f] : o.sub # subscriptions[f]}
                ELSE observers[f]]
  IN /\ observers' = obs
     /\ subscriptions' = Del(subscriptions, f)
     /\ initialValuesMap' = Del(initialValuesMap, f)
     /\ formChangedMap' = formChangedMap
     /\ cells' = Collect(cells, formChangedMap, held, obs)
     /\ lastOp' = Op("cleanupForm", f, {})
     /\ UNCHANGED <<controls, pristine, held>>

\* cleanupForm that drops the table entries without unsubscribing
cleanupForm_leak(f) ==
  LET fcm == Del(formChangedMap, f)
  IN /\ observers' = observers
     /\ subscriptions' = Del(subscriptions, f)
     /\ initialValuesMap' = Del(initialValuesMap, f)
     /\ formChangedMap' = fcm
     /\ cells' = Collect(cells, fcm, held, observers)
     /\ lastOp' = Op("cleanupForm", f, {})
     /\ UNCHANGED <<controls, pristine, held>>

cleanupForm(f) ==
  LET obs == [observers EXCEPT ![f] =
                IF f \in DOMAIN subscriptions
                THEN {o \in observers[f] : o.sub # subscriptions[f]}
                ELSE observers[f]]
      fcm == Del(formChangedMap, f)
  IN /\ observers' = obs
     /\ subscriptions' = Del(subscriptions, f)
     /\ initialValuesMap' = Del(initialValuesMap, f)
     /\ formChangedMap' = fcm
     /\ cells' = Collect(cells, fcm, held, obs)
     /\ lastOp' = Op("cleanupForm", f, {})
     /\ UNCHANGED <<controls, pristine, held>>

\* clearAll emptying the subscription table before it unsubscribes
ngOnDestroy_clearfirst ==
  /\ initialValuesMap' = EmptyMap
  /\ formChangedMap' = EmptyMap
  /\ observers' = observers
  /\ subscriptions' = EmptyMap
  /\ cells' = Collect(cells, EmptyMap, held, observers)
  /\ lastOp' = Op("ngOnDestroy", "none", {})
  /\ UNCHANGED <<controls, pristine, held>>

\* ngOnDestroy -> clearAll
ngOnDestroy ==
  LET obs == [g \in Forms |-> {o \in observers[g] : o.sub \notin Range(subscriptions)}]
  IN /\ initialValuesMap' = EmptyMap
     /\ formChangedMap' = EmptyMap
     /\ observers' = obs
     /\ subscriptions' = EmptyMap
     /\ cells' = Collect(cells, EmptyMap, held, obs)
     /\ lastOp' = Op("ngOnDestroy", "none", {})
     /\ UNCHANGED <<controls, pristine, held>>

\* the fallback loop / the children loop of patchValue: every snapshot key in
\* keys is set to its snapshot value, one control after the other
RECURSIVE SetAll(_, _, _)
SetAll(f, ctl, keys) ==
  IF keys = {} THEN ctl
  ELSE LET k == CHOOSE x \in keys : TRUE
       IN SetAll(f, ControlSetValue(f, ctl, k, initialValuesMap[f][k].value), keys \ {k})

\* resetToInitialValues treating a missing snapshot as an empty one
resetToInitialValues_noguard(f, bulkFails, setFails) ==
  IF f \notin DOMAIN initialValuesMap
  THEN /\ cells' = IF bulkFails THEN cells ELSE Notify(f, controls[f])
       /\ pristine' = [pristine EXCEPT ![f] = TRUE]
       /\ lastOp' = Op("resetToInitialValues", f, {})
       /\ UNCHANGED <<controls, initialValuesMap, formChangedMap,
                      subscriptions, observers, held>>
  ELSE LET keys == (DOMAIN initialValuesMap[f]) \cap (DOMAIN controls[f])
       IN IF bulkFails /\ setFails /\ keys # {}
          THEN \E failing \in keys : \E done \in SUBSET (keys \ {failing}) :
                 LET ctl == SetAll(f, controls[f], done)
                 IN /\ controls' = [controls EXCEPT ![f] = ctl]
                    /\ cells' = IF done # {} THEN Notify(f, ctl) ELSE cells
                    \* the error leaves the forEach and the method:
                    \* markAsPristine is not reached
                    /\ lastOp' = Threw("resetToInitialValues", f, keys)
                    /\ UNCHANGED <<pristine, initialValuesMap, formChangedMap,
                                   subscriptions, observers, held>>
          ELSE LET ctl == SetAll(f, controls[f], keys)
                   \* patchValue emits once after its children are set; in
                   \* the fallback every setValue emits
                   emitted == IF bulkFails THEN keys # {} ELSE TRUE
               IN /\ controls' = [controls EXCEPT ![f] = ctl]
                  /\ cells' = IF emitted THEN Notify(f, ctl) ELSE cells
                  /\ pristine' = [pristine EXCEPT ![f] = TRUE]
                  /\ lastOp' = Op("resetToInitialValues", f, keys)
                  /\ UNCHANGED <<initialValuesMap, formChangedMap, subscriptions,
                                 observers, held>>

\* resetToInitialValues; bulkFails: formGroup.patchValue throws; setFails: in
\* the fallback the setValue of one control throws as well, before it assigns,
\* after the controls in done have been set (the order of the snapshot's keys
\* is not recorded, so done is any set of the other keys)
\* resetToInitialValues calling formGroup.reset(values) in the place of
\* patchValue(values): a control that values has no key for is set to null
resetToInitialValues_reset(f, bulkFails, setFails) ==
  IF f \notin DOMAIN initialValuesMap
  THEN /\ lastOp' = Op("resetToInitialValues", f, {})
       /\ UNCHANGED <<controls, pristine, initialValuesMap, formChangedMap,
                      subscriptions, cells, observers, held>>
  ELSE LET keys == (DOMAIN initialValuesMap[f]) \cap (DOMAIN controls[f])
           set == SetAll(f, controls[f], keys)
           ctl == [k \in DOMAIN set |->
                     IF k \in keys \/ bulkFails THEN set[k]
                     ELSE [set[k] EXCEPT !.value = Prim(0)]]
       IN /\ controls' = [controls EXCEPT ![f] = ctl]
          /\ cells' = Notify(f, ctl)
          /\ pristine' = [pristine EXCEPT ![f] = TRUE]
          /\ lastOp' = Op("resetToInitialValues", f, keys)
          /\ UNCHANGED <<initialValuesMap, formChangedMap, subscriptions,
                         observers, held>>

resetToInitialValues(f, bulkFails, setFails) ==
  IF f \notin DOMAIN initialValuesMap
  THEN /\ lastOp' = Op("resetToInitialValues", f, {})
       /\ UNCHANGED <<controls, pristine, initialValuesMap, formChangedMap,
                      subscriptions, cells, observers, held>>
  ELSE LET keys == (DOMAIN initialValuesMap[f]) \cap (DOMAIN controls[f])
       IN IF bulkFails /\ setFails /\ keys # {}
          THEN \E failing \in keys : \E done \in SUBSET (keys \ {failing}) :
                 LET ctl == SetAll(f, controls[f], done)
                 IN /\ controls' = [controls EXCEPT ![f] = ctl]
                    /\ cells' = IF done # {} THEN Notify(f, ctl) ELSE cells
                    \* the error leaves the forEach and the method:
                    \* markAsPristine is not reached
                    /\ lastOp' = Threw("resetToInitialValues", f, keys)
                    /\ UNCHANGED <<pristine, initialValuesMap, formChangedMap,
                                   subscriptions, observers, held>>
          ELSE LET ctl == SetAll(f, controls[f], keys)
                   \* patchValue emits once after its children are set; in
                   \* the fallback every setValue emits
                   emitted == IF bulkFails THEN keys # {} ELSE TRUE
               IN /\ controls' = [controls EXCEPT ![f] = ctl]
                  /\ cells' = IF emitted THEN Notify(f, ctl) ELSE cells
                  /\ pristine' = [pristine EXCEPT ![f] = TRUE]
                  /\ lastOp' = Op("resetToInitialValues", f, keys)
                  /\ UNCHANGED <<initialValuesMap, formChangedMap, subscriptions,
                                 observers, held>>

\* the forEach of resetControlsToInitialValue running over the snapshot's keys
\* instead of controlNames
RECURSIVE ResetEach_all(_, _, _, _)
ResetEach_all(f, ctl, controlNames, set) ==
  LET keys == (DOMAIN initialValuesMap[f]) \cap (DOMAIN ctl)
  IN [ctl |-> SetAll(f, ctl, keys), set |-> keys # {}, thrown |-> FALSE]

\* the forEach of resetControlsToInitialValue over controlNames, in order;
\* the result is the controls, whether any setValue emitted, and whether the
\* loop was left by an error: when both lookups are truthy and the control is
\* not one of the form's own, what controls[controlName] yields has no
\* setValue and the call throws a TypeError
RECURSIVE ResetEach(_, _, _, _)
ResetEach(f, ctl, controlNames, set) ==
  IF controlNames = <<>> THEN [ctl |-> ctl, set |-> set, thrown |-> FALSE]
  ELSE LET controlName == Head(controlNames)
       IN IF Truthy(ctl, controlName) /\ Truthy(initialValuesMap[f], controlName)
          THEN IF controlName \in DOMAIN ctl /\ controlName \in DOMAIN initialValuesMap[f]
               THEN ResetEach(f, ControlSetValue(f, ctl, controlName,
                                                 initialValuesMap[f][controlName].value),
                              Tail(controlNames), TRUE)
               ELSE [ctl |-> ctl, set |-> set, thrown |-> TRUE]
          ELSE ResetEach(f, ctl, Tail(controlNames), set)

resetControlsToInitialValue(f, controlNames) ==
  LET names == {controlNames[i] : i \in 1..Len(controlNames)}
  IN IF f \notin DOMAIN initialValuesMap
     THEN /\ lastOp' = Op("resetControlsToInitialValue", f, names)
          /\ UNCHANGED <<controls, pristine, initialValuesMap, formChangedMap,
                         subscriptions, cells, observers, held>>
     ELSE LET r == ResetEach(f, controls[f], controlNames, FALSE)
          IN /\ controls' = [controls EXCEPT ![f] = r.ctl]
             /\ cells' = IF r.set THEN Notify(f, r.ctl) ELSE cells
             /\ lastOp' = IF r.thrown
                          THEN Threw("resetControlsToInitialValue", f, names)
                          ELSE Op("resetControlsToInitialValue", f, names)
             /\ UNCHANGED <<pristine, initialValuesMap, formChangedMap,
                            subscriptions, observers, held>>

\* the controlNames lists tried
NameLists == UNION {[1..n -> Names] : n \in 0..MaxNames}
\* controlNames lists that also name what no form and no snapshot has
FaultLists ==
  UNION {[1..n -> (Names \ GroupNames) \cup ProtoNames] : n \in 0..MaxNames}

\* ------------------------------------------------------- specification
\* the application works on the controls named in ks
FormStep(f, ks) ==
  \/ \E k \in ks : \E val \in Validators : \E v \in NewValues(f, k) :
       AddControl(f, k, v, val)
  \/ \E k \in ks : RemoveControl(f, k)
  \/ \E k \in ks : \E v \in NewValues(f, k) : SetValue(f, k, v)
  \/ MarkAsDirty(f)

\* keeps: whether callers of getFormChanged store the signal they get
ServiceStep(f, keeps) ==
  \/ \E keep \in keeps : getFormChanged(f, keep)
  \/ storeInitialValues(f)
  \/ updateInitialValuesForNewControls(f)
  \/ \E bulkFails \in BOOLEAN : resetToInitialValues(f, bulkFails, FALSE)
  \/ \E controlNames \in NameLists : resetControlsToInitialValue(f, controlNames)
  \/ cleanupForm(f)

\* one form with a FormControl and a nested group; signals are only read
Next ==
  \/ \E f \in OneForm : FormStep(f, Names)
  \/ \E f \in OneForm : ServiceStep(f, {FALSE})
  \/ ngOnDestroy

Spec == Init /\ [][Next]_vars

\* one form with a FormControl; callers also keep the signals they get
NextHeld ==
  \/ \E f \in OneForm : FormStep(f, Names \ GroupNames)
  \/ \E f \in OneForm : ServiceStep(f, BOOLEAN)
  \/ ngOnDestroy

SpecHeld == Init /\ [][NextHeld]_vars

\* the values of the controls where several forms are tracked: one to
\* register a form with and one to change it to
TwoValues == {Prim(1), Prim(2)}

\* ---- the service called with null
\* storeInitialValues(null) and updateInitialValuesForNewControls(null) read
\* null.controls before they write any table: a TypeError, nothing changes
ThrowsOnNull(name) ==
  /\ lastOp' = Threw(name, NullForm, {})
  /\ UNCHANGED <<controls, pristine, initialValuesMap, formChangedMap,
                 subscriptions, cells, observers, held>>

\* resetToInitialValues(null) and resetControlsToInitialValue(null, names)
\* find no snapshot and return
ReturnsOnNull(name) ==
  /\ NullForm \notin DOMAIN initialValuesMap
  /\ lastOp' = Op(name, NullForm, {})
  /\ UNCHANGED <<controls, pristine, initialValuesMap, formChangedMap,
                 subscriptions, cells, observers, held>>

\* cleanupForm(null): no subscription to end, the two deletes run
cleanupFormNull ==
  LET fcm == Del(formChangedMap, NullForm)
  IN /\ NullForm \notin DOMAIN subscriptions
     /\ initialValuesMap' = Del(initialValuesMap, NullForm)
     /\ formChangedMap' = fcm
     /\ cells' = Collect(cells, fcm, held, observers)
     /\ lastOp' = Op("cleanupForm", NullForm, {})
     /\ UNCHANGED <<controls, pristine, subscriptions, observers, held>>

NullStep ==
  \/ \E keep \in BOOLEAN : getFormChanged(NullForm, keep)
  \/ \E name \in {"storeInitialValues", "updateInitialValuesForNewControls"} :
       ThrowsOnNull(name)
  \/ \E name \in {"resetToInitialValues", "resetControlsToInitialValue"} :
       ReturnsOnNull(name)
  \/ cleanupFormNull

\* one form with a FormControl that is registered, changed and released, and
\* calls with null in the place of the form
NextNull ==
  \/ \E f \in OneForm : \E k \in Names \ GroupNames : \E v \in TwoValues :
       AddControl(f, k, v, NoValidator)
  \/ \E f \in OneForm : \E k \in Names \ GroupNames : \E v \in TwoValues :
       SetValue(f, k, v)
  \/ \E f \in OneForm : getFormChanged(f, FALSE)
  \/ \E f \in OneForm : storeInitialValues(f)
  \/ \E f \in OneForm : cleanupForm(f)
  \/ ngOnDestroy
  \/ NullStep

SpecNull == Init /\ [][NextNull]_vars

\* ---- forms with a control named like a member of Object.prototype
\* the service knows nothing of f: f is as a form just constructed
Unknown(f) ==
  /\ f \notin DOMAIN initialValuesMap
  /\ f \notin DOMAIN formChangedMap
  /\ f \notin DOMAIN subscriptions
  /\ observers[f] = {}

\* one form with FormControls, one of which may be named "constructor"; such a
\* control is given to the FormGroup when it is constructed, as addControl
\* does not add a name for which controls[name] is truthy
NextProto ==
  \/ \E f \in OneForm : \E k \in (Names \ GroupNames) \cup ProtoNames :
       \E v \in TwoValues :
         /\ k \in ProtoNames => Unknown(f)
         /\ AddControl(f, k, v, NoValidator)
  \/ \E f \in OneForm : \E k \in (Names \ GroupNames) \cup ProtoNames :
       \E v \in TwoValues : SetValue(f, k, v)
  \/ \E f \in OneForm : getFormChanged(f, FALSE)
  \/ \E f \in OneForm : storeInitialValues(f)
  \/ \E f \in OneForm : updateInitialValuesForNewControls(f)
  \/ \E f \in OneForm : cleanupForm(f)

SpecProto == Init /\ [][NextProto]_vars

\* calls that make the host form or a name lookup fail
FaultStep(f) ==
  \/ \E bulkFails \in BOOLEAN : \E setFails \in BOOLEAN :
       resetToInitialValues(f, bulkFails, setFails)
  \/ \E controlNames \in FaultLists : resetControlsToInitialValue(f, controlNames)

\* one form with a FormControl and a nested group, and the calls that fail
NextFaults ==
  \/ \E f \in OneForm : FormStep(f, Names)
  \/ \E f \in OneForm : getFormChanged(f, FALSE)
  \/ \E f \in OneForm : storeInitialValues(f)
  \/ \E f \in OneForm : updateInitialValuesForNewControls(f)
  \/ \E f \in OneForm : cleanupForm(f)
  \/ \E f \in OneForm : FaultStep(f)

SpecFaults == Init /\ [][NextFaults]_vars

\* several forms, each with a FormControl holding primitives; callers keep
\* the signals they get, and the service is only torn down as a whole
NextForms ==
  \/ \E f \in Forms : \E k \in Names \ GroupNames : \E v \in TwoValues :
       AddControl(f, k, v, NoValidator)
  \/ \E f \in Forms : \E k \in Names \ GroupNames : \E v \in TwoValues :
       SetValue(f, k, v)
  \/ \E f \in Forms : getFormChanged(f, TRUE)
  \/ \E f \in Forms : storeInitialValues(f)
  \/ ngOnDestroy

SpecForms == Init /\ [][NextForms]_vars

\* several forms, each with a FormControl holding primitives, and every
\* operation of the service on each of them
NextIsolated ==
  \/ \E f \in Forms : \E k \in Names \ GroupNames : \E v \in TwoValues :
       AddControl(f, k, v, NoValidator)
  \/ \E f \in Forms : \E k \in Names \ GroupNames : RemoveControl(f, k)
  \/ \E f \in Forms : \E k \in Names \ GroupNames : \E v \in TwoValues :
       SetValue(f, k, v)
  \/ \E f \in Forms : getFormChanged(f, FALSE)
  \/ \E f \in Forms : storeInitialValues(f)
  \/ \E f \in Forms : updateInitialValuesForNewControls(f)
  \/ \E f \in Forms : \E bulkFails \in BOOLEAN : resetToInitialValues(f, bulkFails, FALSE)
  \/ \E f \in Forms : \E controlNames \in [1..1 -> Names \ GroupNames] :
       resetControlsToInitialValue(f, controlNames)
  \/ \E f \in Forms : cleanupForm(f)
  \/ ngOnDestroy

SpecIsolated == Init /\ [][NextIsolated]_vars

\* the application also disables and enables controls and gives them
\* validators
FlagStep(f, ks) ==
  \/ \E k \in ks : \E val \in SomeValidators : \E v \in NewValues(f, k) :
       AddControl(f, k, v, val)
  \/ \E k \in ks : RemoveControl(f, k)
  \/ \E k \in ks : \E v \in NewValues(f, k) : SetValue(f, k, v)
  \/ \E k \in ks : \E b \in BOOLEAN : SetDisabled(f, k, b)
  \/ \E k \in ks : \E val \in SomeValidators : SetValidators(f, k, val)

\* one form with a FormControl whose disabled flag and validator vary
NextFlags ==
  \/ \E f \in OneForm : FlagStep(f, Names \ GroupNames)
  \/ \E f \in OneForm : ServiceStep(f, {FALSE})
  \/ ngOnDestroy

SpecFlags == Init /\ [][NextFlags]_vars

\* ------------------------------------------------------------- properties
\* f has a snapshot, a signal and a subscription (registered, not released)
Registered(f) ==
  /\ f \in DOMAIN initialValuesMap
  /\ f \in DOMAIN formChangedMap
  /\ f \in DOMAIN subscriptions
\* what the signal of f reads
SignalOf(f) == cells[formChangedMap[f]]
\* some control that is on the form and in the snapshot holds a value that is
\* strictly unequal to its snapshot value
Differs(f) ==
  \E k \in (DOMAIN controls[f]) \cap (DOMAIN initialValuesMap[f]) :
    StrictNeq(controls[f][k].value, initialValuesMap[f][k].value)
\* the state was produced by operation name on form f, which returned
After(name, f) == lastOp.op = name /\ lastOp.form = f /\ ~lastOp.thrown
\* the state was produced by operation name on form f, which threw
Raised(name, f) == lastOp.op = name /\ lastOp.form = f /\ lastOp.thrown

\* C1: whatever happened to form f before, right after storeInitialValues(f)
\* has returned the signal of f reads false.
C1_RegisterReadsFalse ==
  \A f \in Forms : After("storeInitialValues", f) => ~SignalOf(f)

\* C2: while form f is registered, its signal reads true exactly when some
\* control that is both on the form and in the snapshot differs from its
\* snapshot value.
C2_SignalEqualsDiff ==
  \A f \in Forms : Registered(f) => (SignalOf(f) <=> Differs(f))

\* C3: after a value change of a registered form the signal reads true when a
\* snapshotted control holds a value strictly unequal to its snapshot value,
\* and false again when every snapshotted control is back at its snapshot
\* value.
C3_ChangeDetected ==
  \A f \in Forms :
    (After("setValue", f) /\ Registered(f)) => (SignalOf(f) <=> Differs(f))
\* a control was set back to the very list the snapshot refers to
C3_Witness ==
  \E f \in Forms : \E k \in Names :
    /\ After("setValue", f) /\ Registered(f) /\ lastOp.names = {k}
    /\ k \in (DOMAIN controls[f]) \cap (DOMAIN initialValuesMap[f])
    /\ controls[f][k].value.id # 0
    /\ controls[f][k].value.id = initialValuesMap[f][k].value.id
    /\ ~SignalOf(f)

\* C4: after resetToInitialValues(f) on a registered form every snapshotted
\* control on the form holds its snapshot value, the signal reads false and
\* the form is pristine, whatever the shape of the values.
C4_ResetAllRestores ==
  \A f \in Forms :
    (After("resetToInitialValues", f) /\ Registered(f)) =>
      /\ \A k \in (DOMAIN controls[f]) \cap (DOMAIN initialValuesMap[f]) :
           controls[f][k].value.content = initialValuesMap[f][k].value.content
      /\ ~SignalOf(f)
      /\ pristine[f]

\* C5: while form f is registered, a snapshotted control that differs from
\* its snapshot value makes canDeactivate(f) return false.
C5_GuardSeesChanges ==
  \A f \in Forms : (Registered(f) /\ Differs(f)) => ~canDeactivate(f)
C5_Witness ==
  \E f \in Forms : Registered(f) /\ Differs(f) /\ ~canDeactivate(f)

\* C6: canDeactivate(f) is true when the signal table has no entry for f and
\* otherwise the negation of what the signal of f reads.
C6_GuardIsNegatedSignal ==
  \A f \in Forms :
    /\ f \notin DOMAIN formChangedMap => canDeactivate(f)
    /\ f \in DOMAIN formChangedMap => (canDeactivate(f) <=> ~SignalOf(f))
\* the guard refuses for a form whose signal reads true, and allows again
\* once the entry is gone
C6_Witness ==
  \E f \in Forms : f \in DOMAIN formChangedMap /\ SignalOf(f) /\ ~canDeactivate(f)

\* a control holds the snapshot value: what it contains is the snapshot's, and
\* a FormControl holds the very reference the snapshot holds
Restored(k, live, snap) ==
  /\ live.content = snap.content
  /\ k \notin GroupNames => ~StrictNeq(live, snap)
FormEvents == {"setValue", "addControl", "removeControl"}

\* C7: resetControlsToInitialValue(f, names) on a form with a snapshot sets
\* every named control that is on the form and in the snapshot to its
\* snapshot value and leaves every control that is not named as it was,
\* whatever else names contains.
C7_ResetFieldsFrame ==
  [][\A f \in Forms :
       (/\ lastOp'.op = "resetControlsToInitialValue" /\ lastOp'.form = f
        /\ f \in DOMAIN initialValuesMap) =>
         /\ DOMAIN controls'[f] = DOMAIN controls[f]
         /\ \A k \in DOMAIN controls[f] :
              IF k \in lastOp'.names
              THEN k \in DOMAIN initialValuesMap[f] =>
                     Restored(k, controls'[f][k].value, initialValuesMap[f][k].value)
              ELSE controls'[f][k] = controls[f][k]]_vars
\* one control was reset while another one stays away from its snapshot value
C7_Witness ==
  \E f \in DOMAIN initialValuesMap :
    \E k, j \in (DOMAIN controls[f]) \cap (DOMAIN initialValuesMap[f]) :
    /\ After("resetControlsToInitialValue", f)
    /\ k \in lastOp.names /\ j \notin lastOp.names
    /\ Restored(k, controls[f][k].value, initialValuesMap[f][k].value)
    /\ controls[f][j].value.content # initialValuesMap[f][j].value.content

\* C8: after cleanupForm(f) none of the three tables has an entry for f, the
\* subscription installed for f is inactive, and a later value change of f
\* runs no handler and writes no signal cell.
C8_ReleaseStopsUpdates ==
  [][\A f \in Forms :
       /\ After("cleanupForm", f)' =>
            /\ f \notin DOMAIN initialValuesMap'
            /\ f \notin DOMAIN formChangedMap'
            /\ f \notin DOMAIN subscriptions'
            /\ observers'[f] = {}
       /\ (f \notin DOMAIN subscriptions /\ lastOp'.form = f /\ lastOp'.op \in FormEvents) =>
            /\ observers[f] = {}
            /\ cells' = cells]_vars
\* the signal a caller kept still reads true after a value change that
\* followed the release
C8_Witness ==
  \E f \in Forms :
    /\ After("setValue", f)
    /\ f \notin DOMAIN subscriptions /\ f \notin DOMAIN formChangedMap
    /\ f \in DOMAIN held /\ cells[held[f]]

\* C9: a value change of a control that has no snapshot entry never turns the
\* signal of a registered form true, while a change of a snapshotted control
\* still does when such a control is on the form.
C9_UncapturedFieldIgnored ==
  [][\A f \in Forms :
       (Registered(f) /\ Registered(f)' /\ lastOp'.form = f /\ lastOp'.op \in FormEvents) =>
         /\ (lastOp'.names \cap DOMAIN initialValuesMap[f] = {} /\ ~SignalOf(f))
              => ~SignalOf(f)'
         /\ (lastOp'.op = "setValue" /\ Differs(f)'
             /\ (DOMAIN controls'[f]) \ (DOMAIN initialValuesMap'[f]) # {})
              => SignalOf(f)']_vars
\* a control without snapshot entry was given a value and the signal reads false
C9_Witness ==
  \E f \in Forms :
    /\ After("setValue", f) /\ Registered(f)
    /\ lastOp.names \subseteq DOMAIN controls[f]
    /\ lastOp.names \cap DOMAIN initialValuesMap[f] = {}
    /\ ~SignalOf(f)

\* C10: updateInitialValuesForNewControls(f) gives every control that had no
\* snapshot entry the entry a registration would have given it, so that later
\* value changes are diffed against the captured value and
\* resetToInitialValues(f) restores it.
C10_CapturedFieldTracked ==
  [][\A f \in Forms :
       /\ After("updateInitialValuesForNewControls", f)' =>
            \A k \in lastOp'.names :
              /\ k \in DOMAIN initialValuesMap'[f]
              /\ initialValuesMap'[f][k].value = controls[f][k].value
       /\ (After("setValue", f)' /\ Registered(f)') => (SignalOf(f)' <=> Differs(f)')
       /\ (After("resetToInitialValues", f)' /\ f \in DOMAIN initialValuesMap) =>
            \A k \in (DOMAIN controls[f]) \cap (DOMAIN initialValuesMap[f]) :
              Restored(k, controls'[f][k].value, initialValuesMap[f][k].value)]_vars
\* a control added to a registered form has just been captured
C10_Witness ==
  \E f \in Forms :
    /\ After("updateInitialValuesForNewControls", f) /\ Registered(f)
    /\ lastOp.names # {}
    /\ \A k \in lastOp.names :
         /\ k \in DOMAIN initialValuesMap[f]
         /\ ~StrictNeq(controls[f][k].value, initialValuesMap[f][k].value)
\* C11: right after storeInitialValues(f) the snapshot has, for every control
\* on the form, an entry holding the control's current value, its disabled
\* flag and its validator state: the one-element list of the control's
\* validator when it has one, none otherwise.
C11_SnapshotMatchesForm ==
  \A f \in Forms : After("storeInitialValues", f) =>
    \A k \in DOMAIN controls[f] :
      /\ k \in DOMAIN initialValuesMap[f]
      /\ initialValuesMap[f][k].value = controls[f][k].value
      /\ initialValuesMap[f][k].disabled = controls[f][k].disabled
      /\ initialValuesMap[f][k].validators =
           IF controls[f][k].validator # NoValidator
           THEN <<controls[f][k].validator>> ELSE <<>>
\* a form was registered while it had a disabled control with a validator
C11_Witness ==
  \E f \in Forms : \E k \in DOMAIN controls[f] :
    /\ After("storeInitialValues", f)
    /\ controls[f][k].disabled
    /\ controls[f][k].validator # NoValidator
    /\ initialValuesMap[f][k].validators = <<controls[f][k].validator>>

\* C12 as stated: for every form the snapshot, the signal and the subscription
\* entry are all absent or all present, or the signal entry exists alone.
C12_AllOrSignalAlone ==
  \A f \in Forms :
    \/ f \notin DOMAIN initialValuesMap /\ f \notin DOMAIN subscriptions
    \/ Registered(f)
\* C12 amended: a subscription entry never exists without a snapshot entry and
\* a signal entry; a signal entry may exist alone, and a snapshot entry may
\* exist without a subscription entry, with or without a signal entry, as
\* updateInitialValuesForNewControls leaves it on a form that is not registered.
C12_SubscriptionHasBoth ==
  \A f \in Forms :
    f \in DOMAIN subscriptions =>
      f \in DOMAIN initialValuesMap /\ f \in DOMAIN formChangedMap
\* updateInitialValuesForNewControls has left a snapshot entry on a form that
\* has no signal entry and no subscription entry
C12_Witness ==
  \E f \in Forms :
    /\ After("updateInitialValuesForNewControls", f)
    /\ f \in DOMAIN initialValuesMap
    /\ f \notin DOMAIN formChangedMap
    /\ f \notin DOMAIN subscriptions

\* C13: a form's valueChanges stream has at most one active subscriber
\* installed by the service, and it is the subscription the table holds for the
\* form; storeInitialValues on a form that already has a subscription removes
\* that subscriber and installs a new, different one.  So one event runs
\* hasFormChanged at most once.
C13_OneSubscription ==
  [][\A f \in Forms :
       /\ Cardinality(observers'[f]) <= 1
       /\ \A o \in observers'[f] :
            f \in DOMAIN subscriptions' /\ o.sub = subscriptions'[f]
       /\ (After("storeInitialValues", f)' /\ f \in DOMAIN subscriptions) =>
            /\ subscriptions'[f] # subscriptions[f]
            /\ observers'[f] = {[sub |-> subscriptions'[f],
                                 cell |-> formChangedMap'[f]]}]_vars
\* the form was registered a second time: the only subscriber is the second
\* subscription
C13_Witness ==
  \E f \in Forms :
    /\ After("storeInitialValues", f)
    /\ subscriptions[f] = 2
    /\ observers[f] = {[sub |-> 2, cell |-> formChangedMap[f]]}

\* C14: storeInitialValues on a form that has a signal entry keeps that signal:
\* the table refers to the same cell afterwards, the new handler writes to it,
\* a caller that held the table's cell still holds the table's cell, and every
\* later value change of the registered form writes the result of
\* hasFormChanged into it.
C14_SignalKept ==
  [][\A f \in Forms :
       /\ (After("storeInitialValues", f)' /\ f \in DOMAIN formChangedMap) =>
            /\ formChangedMap'[f] = formChangedMap[f]
            /\ \A o \in observers'[f] : o.cell = formChangedMap[f]
            /\ (f \in DOMAIN held /\ held[f] = formChangedMap[f]) =>
                 held'[f] = formChangedMap'[f]
       /\ (Registered(f) /\ lastOp'.form = f /\ lastOp'.op \in FormEvents) =>
            /\ formChangedMap'[f] = formChangedMap[f]
            /\ cells'[formChangedMap[f]] = hasFormChanged(f, controls[f])']_vars
\* a caller obtained the signal, the form was then registered a second time,
\* and the caller's cell is still the one in the table
C14_Witness ==
  \E f \in Forms :
    /\ After("storeInitialValues", f)
    /\ subscriptions[f] = 2
    /\ f \in DOMAIN held
    /\ held[f] = formChangedMap[f]

\* C15: getFormChanged(f) returns the cell the table has for f, or creates one
\* that reads false when there is none; it changes no snapshot, no
\* subscription, no subscriber, no control, no pristine flag, no other form's
\* signal entry and the value of no cell that existed.
C15_GetSignalFrame ==
  [][\A f \in Forms :
       After("getFormChanged", f)' =>
         /\ UNCHANGED <<controls, pristine, initialValuesMap, subscriptions, observers>>
         /\ f \in DOMAIN formChangedMap'
         /\ IF f \in DOMAIN formChangedMap
            THEN formChangedMap' = formChangedMap
            ELSE /\ formChangedMap'[f] \notin DOMAIN cells
                 /\ ~cells'[formChangedMap'[f]]
                 /\ \A g \in DOMAIN formChangedMap :
                      formChangedMap'[g] = formChangedMap[g]
         /\ \A c \in (DOMAIN cells) \cap (DOMAIN cells') : cells'[c] = cells[c]
         /\ (held' # held) => held'[f] = formChangedMap'[f]]_vars
\* a caller got the signal of a registered form that reads true
C15_Witness ==
  \E f \in Forms :
    /\ After("getFormChanged", f)
    /\ Registered(f)
    /\ SignalOf(f)
    /\ f \in DOMAIN held
    /\ held[f] = formChangedMap[f]

\* C16: on a form that has no snapshot resetToInitialValues and
\* resetControlsToInitialValue return without an error and change nothing: no
\* control, no pristine flag, no table, no cell and no subscriber, whatever
\* names are given.
C16_ResetWithoutSnapshot ==
  [][\A f \in Forms :
       (/\ lastOp'.form = f
        /\ lastOp'.op \in {"resetToInitialValues", "resetControlsToInitialValue"}
        /\ f \notin DOMAIN initialValuesMap) =>
         /\ ~lastOp'.thrown
         /\ UNCHANGED <<controls, pristine, initialValuesMap, formChangedMap,
                        subscriptions, cells, observers, held>>]_vars
\* resetToInitialValues returned on a touched form that has a control and no
\* snapshot
C16_Witness ==
  \E f \in Forms :
    /\ After("resetToInitialValues", f)
    /\ f \notin DOMAIN initialValuesMap
    /\ DOMAIN controls[f] # {}
    /\ ~pristine[f]

\* C17: resetControlsToInitialValue(f, names) never throws, whatever names
\* contains: a name that the form or the snapshot does not have is skipped,
\* and every named control that is on the form and in the snapshot holds its
\* snapshot value afterwards.
C17_ResetFieldsNeverThrows ==
  [][\A f \in Forms :
       (lastOp'.op = "resetControlsToInitialValue" /\ lastOp'.form = f) =>
         /\ ~lastOp'.thrown
         /\ f \in DOMAIN initialValuesMap =>
              \A k \in lastOp'.names \cap (DOMAIN controls[f])
                        \cap (DOMAIN initialValuesMap[f]) :
                Restored(k, controls'[f][k].value, initialValuesMap[f][k].value)]_vars

\* C18: resetToInitialValues on a form with a snapshot never throws, also when
\* patchValue fails and a setValue of the fallback fails: it creates no
\* control, every snapshotted control that is on the form holds its snapshot
\* value afterwards, and the form is pristine.
C18_FallbackNeverThrows ==
  [][\A f \in Forms :
       (/\ lastOp'.op = "resetToInitialValues" /\ lastOp'.form = f
        /\ f \in DOMAIN initialValuesMap) =>
         /\ ~lastOp'.thrown
         /\ pristine'[f]
         /\ DOMAIN controls'[f] = DOMAIN controls[f]
         /\ \A k \in (DOMAIN controls[f]) \cap (DOMAIN initialValuesMap[f]) :
              Restored(k, controls'[f][k].value, initialValuesMap[f][k].value)]_vars

\* C19: cleanupForm(f) can be called in every state, whatever entries f has;
\* it returns without an error and leaves no snapshot, signal or subscription
\* entry for f; called again right after, it changes nothing.
C19_ReleaseIdempotent ==
  [][\A f \in Forms :
       /\ ENABLED cleanupForm(f)
       /\ After("cleanupForm", f) => ENABLED (cleanupForm(f) /\ UNCHANGED vars)
       /\ (lastOp'.op = "cleanupForm" /\ lastOp'.form = f) =>
            /\ ~lastOp'.thrown
            /\ f \notin DOMAIN initialValuesMap'
            /\ f \notin DOMAIN formChangedMap'
            /\ f \notin DOMAIN subscriptions']_vars
\* cleanupForm returned on a form that has controls and is in no table
C19_Witness ==
  \E f \in Forms :
    /\ After("cleanupForm", f)
    /\ DOMAIN controls[f] # {}
    /\ f \notin DOMAIN initialValuesMap
    /\ f \notin DOMAIN formChangedMap
    /\ f \notin DOMAIN subscriptions

\* C20: after ngOnDestroy the three tables are empty and no form's
\* valueChanges stream has a subscriber of the service left, however many
\* forms were tracked; a later value change of a form that has no subscription
\* entry writes no cell, so the cells callers still hold keep their values.
C20_TeardownStopsAll ==
  [][/\ lastOp'.op = "ngOnDestroy" =>
          /\ ~lastOp'.thrown
          /\ initialValuesMap' = EmptyMap
          /\ formChangedMap' = EmptyMap
          /\ subscriptions' = EmptyMap
          /\ \A g \in Forms : observers'[g] = {}
     /\ \A f \in Forms :
          (/\ f \notin DOMAIN subscriptions
           /\ lastOp'.form = f /\ lastOp'.op \in FormEvents) =>
            cells' = cells]_vars
\* the service was torn down while callers held the signals of two forms that
\* both read true, and a form was changed afterwards
C20_Witness ==
  \E f \in Forms :
    /\ After("setValue", f)
    /\ subscriptions = EmptyMap
    /\ initialValuesMap = EmptyMap
    /\ formChangedMap = EmptyMap
    /\ \A g \in Forms : g \in DOMAIN held /\ cells[held[g]]

\* C21: a registered form has a FormControl whose snapshot value is a list.
\* Setting the control to another list makes the signal read true, also when
\* the new list has the same contents; setting it to the very list the
\* snapshot refers to makes the control count as unchanged, so the signal
\* reads true only if another snapshotted control differs.
C21_IdentityNotContents ==
  \A f \in Forms : \A k \in Names \ GroupNames :
    (/\ After("setValue", f) /\ Registered(f) /\ lastOp.names = {k}
     /\ k \in (DOMAIN controls[f]) \cap (DOMAIN initialValuesMap[f])
     /\ initialValuesMap[f][k].value.id # 0) =>
      LET live == controls[f][k].value
          snap == initialValuesMap[f][k].value
          others == ((DOMAIN controls[f]) \cap (DOMAIN initialValuesMap[f])) \ {k}
      IN /\ (live.id # 0 /\ live.id # snap.id) => SignalOf(f)
         /\ (live.id = snap.id) =>
              (SignalOf(f) <=>
                 \E j \in others :
                   LET a == controls[f][j].value
                       b == initialValuesMap[f][j].value
                   IN IF a.id = 0 /\ b.id = 0 THEN a.content # b.content
                      ELSE a.id # b.id)
\* a control was set to a new list with the contents of the snapshot's list
C21_Witness ==
  \E f \in Forms : \E k \in Names \ GroupNames :
    /\ After("setValue", f) /\ Registered(f) /\ lastOp.names = {k}
    /\ k \in (DOMAIN controls[f]) \cap (DOMAIN initialValuesMap[f])
    /\ initialValuesMap[f][k].value.id # 0
    /\ controls[f][k].value.id # 0
    /\ controls[f][k].value.id # initialValuesMap[f][k].value.id
    /\ controls[f][k].value.content = initialValuesMap[f][k].value.content
    /\ SignalOf(f)

\* C22: whatever state the service is in, getFormChanged(null) returns without
\* an error a signal that reads false, and canDeactivate(null) yields true,
\* before and after getFormChanged(null) has made an entry for null; the cell
\* a caller got for null reads false ever after.
C22_NullFormSafe ==
  /\ canDeactivate(NullForm)
  /\ NullForm \in DOMAIN formChangedMap => ~cells[formChangedMap[NullForm]]
  /\ NullForm \in DOMAIN held => ~cells[held[NullForm]]
  /\ (lastOp.op = "getFormChanged" /\ lastOp.form = NullForm) =>
       ~lastOp.thrown /\ NullForm \in DOMAIN formChangedMap
\* getFormChanged(null) returned its signal while a registered form's signal
\* reads true
C22_Witness ==
  /\ After("getFormChanged", NullForm)
  /\ NullForm \in DOMAIN held
  /\ held[NullForm] = formChangedMap[NullForm]
  /\ canDeactivate(NullForm)
  /\ \E f \in Forms : Registered(f) /\ SignalOf(f)

\* C23: a cell changes its value only in a step on a form whose valueChanges
\* stream has a handler of the service writing to that cell, and the value
\* written is the result of hasFormChanged; the signal of a form that has no
\* subscription reads false, whatever was changed, reset or captured.
C23_OnlyHandlerWrites ==
  [][/\ \A f \in Forms :
          (f \in DOMAIN formChangedMap' /\ f \notin DOMAIN subscriptions') =>
            ~cells'[formChangedMap'[f]]
     /\ \A c \in (DOMAIN cells) \cap (DOMAIN cells') :
          cells'[c] # cells[c] =>
            \E f \in Forms :
              /\ lastOp'.form = f
              /\ \E o \in observers[f] : o.cell = c
              /\ cells'[c] = hasFormChanged(f, controls[f])']_vars
\* a form that is not registered has a snapshot, a control that differs from
\* it and a signal that reads false
C23_Witness ==
  \E f \in Forms :
    /\ After("setValue", f)
    /\ f \in DOMAIN formChangedMap
    /\ f \notin DOMAIN subscriptions
    /\ f \in DOMAIN initialValuesMap
    /\ Differs(f)
    /\ ~SignalOf(f)

\* C24: storeInitialValues on a form that is registered replaces its snapshot:
\* the new snapshot has an entry for exactly the controls now on the form,
\* each with the control's current value, so no control differs from it, and
\* the snapshots of other forms stay as they are.
C24_RegisterReplacesSnapshot ==
  [][\A f \in Forms :
       (After("storeInitialValues", f)' /\ Registered(f)) =>
         /\ DOMAIN initialValuesMap'[f] = DOMAIN controls[f]
         /\ \A k \in DOMAIN controls[f] :
              initialValuesMap'[f][k].value = controls[f][k].value
         /\ ~Differs(f)'
         /\ \A g \in (DOMAIN initialValuesMap) \ {f} :
              initialValuesMap'[g] = initialValuesMap[g]]_vars
\* a form was registered a second time, and its snapshot is that of its one
\* control
C24_Witness ==
  \E f \in Forms :
    /\ After("storeInitialValues", f)
    /\ subscriptions[f] = 2
    /\ DOMAIN controls[f] # {}
    /\ DOMAIN initialValuesMap[f] = DOMAIN controls[f]

\* C25: the snapshot of a form is replaced or removed only by
\* storeInitialValues and cleanupForm on that form and by ngOnDestroy.  Apart
\* from these, only updateInitialValuesForNewControls on the form changes it,
\* and it only adds the entries of the controls that had none: every entry
\* that exists stays as it is, also when the control's value differs from it.
C25_SnapshotEntriesKept ==
  [][\A f \in DOMAIN initialValuesMap :
       (/\ ~(lastOp'.form = f /\ lastOp'.op \in {"storeInitialValues", "cleanupForm"})
        /\ lastOp'.op # "ngOnDestroy") =>
         /\ f \in DOMAIN initialValuesMap'
         /\ \A k \in DOMAIN initialValuesMap[f] :
              /\ k \in DOMAIN initialValuesMap'[f]
              /\ initialValuesMap'[f][k] = initialValuesMap[f][k]
         /\ IF lastOp'.form = f /\ lastOp'.op = "updateInitialValuesForNewControls"
            THEN DOMAIN initialValuesMap'[f] \subseteq
                   (DOMAIN initialValuesMap[f]) \cup (DOMAIN controls[f])
            ELSE initialValuesMap'[f] = initialValuesMap[f]]_vars
\* updateInitialValuesForNewControls returned on a form whose control differs
\* from its snapshot entry
C25_Witness ==
  \E f \in DOMAIN initialValuesMap :
    /\ After("updateInitialValuesForNewControls", f)
    /\ Differs(f)

\* C26: updateInitialValuesForNewControls on a form that has no snapshot
\* stores a snapshot with an entry for every control on the form, holding the
\* control's value, and touches no signal entry, no subscription and no
\* subscriber; value changes of a form without a subscription write no cell.
C26_CaptureWithoutSnapshot ==
  [][\A f \in Forms :
       /\ (/\ lastOp'.op = "updateInitialValuesForNewControls" /\ lastOp'.form = f
           /\ f \notin DOMAIN initialValuesMap) =>
            /\ ~lastOp'.thrown
            /\ f \in DOMAIN initialValuesMap'
            /\ \A k \in DOMAIN controls[f] :
                 /\ k \in DOMAIN initialValuesMap'[f]
                 /\ initialValuesMap'[f][k].value = controls[f][k].value
            /\ UNCHANGED <<formChangedMap, subscriptions, observers, cells>>
       /\ (/\ f \notin DOMAIN subscriptions
           /\ lastOp'.form = f /\ lastOp'.op \in FormEvents) =>
            UNCHANGED <<formChangedMap, cells>>]_vars

\* C27: when a snapshotted control is removed from a registered form, the
\* handler run by the removal looks only at the controls still on the form:
\* the signal reads true exactly when one of them differs from its snapshot
\* value, whatever value the removed control held.
C27_RemovedFieldNotDiffed ==
  [][\A f \in Forms : \A k \in Names :
       (/\ Registered(f) /\ After("removeControl", f)' /\ lastOp'.names = {k}
        /\ k \in DOMAIN initialValuesMap[f]) =>
         /\ k \in DOMAIN initialValuesMap'[f]
         /\ SignalOf(f)' <=>
              \E j \in ((DOMAIN controls[f]) \ {k}) \cap (DOMAIN initialValuesMap[f]) :
                StrictNeq(controls[f][j].value, initialValuesMap[f][j].value)]_vars
\* a snapshotted control was removed, another snapshotted control is still on
\* the form, and the signal reads false
C27_Witness ==
  \E f \in Forms : \E k, j \in Names :
    /\ After("removeControl", f) /\ Registered(f) /\ lastOp.names = {k}
    /\ k \in DOMAIN initialValuesMap[f]
    /\ j \in (DOMAIN controls[f]) \cap (DOMAIN initialValuesMap[f])
    /\ ~SignalOf(f)

\* C28: the disabled flag and the validators are in the snapshot and in no
\* comparison: when a control of a registered form is disabled, enabled or
\* given other validators while no snapshotted control's value differs from
\* its snapshot value, the handler does not write true.  Both reset
\* operations leave the disabled flag and the validator of every control as
\* they are.
C28_FlagsNotDiffed ==
  [][\A f \in Forms :
       /\ (/\ Registered(f) /\ lastOp'.form = f
           /\ lastOp'.op \in {"setDisabled", "setValidators"}
           /\ ~Differs(f)') => ~SignalOf(f)'
       /\ (/\ lastOp'.form = f
           /\ lastOp'.op \in {"resetToInitialValues", "resetControlsToInitialValue"}) =>
            /\ DOMAIN controls'[f] = DOMAIN controls[f]
            /\ \A k \in DOMAIN controls[f] :
                 /\ controls'[f][k].disabled = controls[f][k].disabled
                 /\ controls'[f][k].validator = controls[f][k].validator]_vars
\* after a reset a control of a registered form is at its snapshot value with
\* a disabled flag and validators other than the snapshot's, and the signal
\* reads false
C28_Witness ==
  \E f \in Forms : \E k \in DOMAIN controls[f] :
    /\ After("resetToInitialValues", f) /\ Registered(f)
    /\ k \in DOMAIN initialValuesMap[f]
    /\ controls[f][k].disabled # initialValuesMap[f][k].disabled
    /\ initialValuesMap[f][k].validators # <<>>
    /\ controls[f][k].validator = NoValidator
    /\ ~Differs(f)
    /\ ~SignalOf(f)

\* the signal a caller kept for f is no longer the one of the signal table
\* and no handler writes to it
Orphaned(f) ==
  /\ f \in DOMAIN held
  /\ f \in DOMAIN formChangedMap => formChangedMap[f] # held[f]
  /\ \A o \in observers[f] : o.cell # held[f]

\* C29: cleanupForm(f) orphans the signal a caller obtained for f before: as
\* long as the caller keeps it, it stays orphaned and keeps its value through
\* every later step, a new registration and value changes included; the signal
\* that getFormChanged(f) or storeInitialValues(f) creates afterwards is
\* another cell and reads false.
C29_ReleasedSignalOrphaned ==
  [][\A f \in Forms :
       /\ (After("cleanupForm", f)' /\ f \in DOMAIN held') => Orphaned(f)'
       /\ (Orphaned(f) /\ f \in DOMAIN held' /\ held'[f] = held[f]) =>
            /\ Orphaned(f)'
            /\ cells'[held[f]] = cells[held[f]]
       /\ (Orphaned(f) /\ f \notin DOMAIN formChangedMap
                       /\ f \in DOMAIN formChangedMap') =>
            /\ lastOp'.op \in {"getFormChanged", "storeInitialValues"}
            /\ formChangedMap'[f] # held[f]
            /\ ~cells'[formChangedMap'[f]]]_vars
\* the form was released, registered again and changed: its new signal reads
\* true while the signal the caller kept from before the release reads false
C29_Witness ==
  \E f \in Forms :
    /\ After("setValue", f) /\ Registered(f)
    /\ Orphaned(f)
    /\ SignalOf(f)
    /\ ~cells[held[f]]

\* C30: canDeactivate(f) is true right after cleanupForm(f), whatever the
\* controls of f hold and whatever the signal read before, and it is true
\* for as long as f has no subscription; it turns false only in a value
\* change of a registered f after which a snapshotted control differs from
\* its snapshot value.
C30_ReleaseOpensGuard ==
  [][\A f \in Forms :
       /\ After("cleanupForm", f)' => canDeactivate(f)'
       /\ f \notin DOMAIN subscriptions' => canDeactivate(f)'
       /\ (canDeactivate(f) /\ ~canDeactivate(f)') =>
            /\ Registered(f)
            /\ lastOp'.form = f /\ lastOp'.op \in FormEvents
            /\ Differs(f)']_vars
\* the form was released while its signal read true and while it was dirty,
\* and the guard allows leaving
C30_Witness ==
  \E f \in Forms :
    /\ After("cleanupForm", f)
    /\ f \in DOMAIN held /\ cells[held[f]]
    /\ ~pristine[f]
    /\ DOMAIN controls[f] # {}
    /\ canDeactivate(f)

\* what the service and the application hold for form g
StateOf(g) ==
  [ctl |-> controls[g],
   pristine |-> pristine[g],
   snapshot |-> IF g \in DOMAIN initialValuesMap THEN {initialValuesMap[g]} ELSE {},
   signal |-> IF g \in DOMAIN formChangedMap
              THEN {<<formChangedMap[g], cells[formChangedMap[g]]>>} ELSE {},
   subscription |-> IF g \in DOMAIN subscriptions THEN {subscriptions[g]} ELSE {},
   handlers |-> observers[g]]

\* C31: an operation of the service on form f, or a value change of f, leaves
\* every other form g as it was: g's controls, its snapshot, its signal cell
\* and what the cell reads, its subscription and the handler installed for it;
\* a step that changes more than one form is ngOnDestroy.
C31_FormsIsolated ==
  [][/\ \A f, g \in Forms : (f # g /\ lastOp'.form = f) => StateOf(g)' = StateOf(g)
     /\ (\A f \in Forms : StateOf(f)' # StateOf(f)) => lastOp'.op = "ngOnDestroy"]_vars
\* a value change turned the signal of one registered form true while the
\* signal of the other registered form, which has a control, reads false
C31_Witness ==
  \E f, g \in Forms :
    /\ f # g /\ After("setValue", f)
    /\ Registered(f) /\ Registered(g)
    /\ SignalOf(f) /\ ~SignalOf(g)
    /\ DOMAIN controls[g] # {}

\* C32: when resetControlsToInitialValue(f, names) on a registered form f has
\* returned, the signal reads false if every snapshotted control that
\* differed from its snapshot value is named, and true if one that differed
\* is not named; when the call set no control the signal reads what it read
\* before, and otherwise it reads what hasFormChanged yields for the form.
C32_ResetFieldsSignal ==
  [][\A f \in Forms :
       (Registered(f) /\ After("resetControlsToInitialValue", f)') =>
         LET snapped == (DOMAIN controls[f]) \cap (DOMAIN initialValuesMap[f])
             differing == {k \in snapped : StrictNeq(controls[f][k].value,
                                                     initialValuesMap[f][k].value)}
             set == lastOp'.names \cap snapped
         IN /\ set = {} => SignalOf(f)' = SignalOf(f)
            /\ set # {} => SignalOf(f)' = hasFormChanged(f, controls[f])'
            /\ (set # {} /\ differing \subseteq lastOp'.names) => ~SignalOf(f)'
            /\ ~(differing \subseteq lastOp'.names) => SignalOf(f)']_vars

\* C33: resetToInitialValues(f) leaves every control of f that has no
\* snapshot entry exactly as it was, when patchValue succeeds as well as when
\* it fails and the loop over the snapshot's keys runs, and it adds and
\* removes no control.
C33_ResetAllFrame ==
  [][\A f \in Forms :
       (lastOp'.op = "resetToInitialValues" /\ lastOp'.form = f) =>
         /\ DOMAIN controls'[f] = DOMAIN controls[f]
         /\ \A k \in DOMAIN controls[f] :
              (f \in DOMAIN initialValuesMap => k \notin DOMAIN initialValuesMap[f]) =>
                controls'[f][k] = controls[f][k]]_vars
\* resetToInitialValues set a snapshotted control back while a control that
\* was added after the registration and has no snapshot entry is on the form
C33_Witness ==
  \E f \in Forms : \E k, j \in DOMAIN controls[f] :
    /\ After("resetToInitialValues", f) /\ Registered(f)
    /\ k \notin DOMAIN initialValuesMap[f]
    /\ j \in lastOp.names
    /\ Restored(j, controls[f][j].value, initialValuesMap[f][j].value)

====
